---------------------------- MODULE Spec2Model ----------------------------
(***************************************************************************)
(* Model of taipy-core's cycle and scenario managers                       *)
(* (taipy/core/cycle/_cycle_manager.py,                                     *)
(*  taipy/core/scenario/_scenario_manager.py).                             *)
(*                                                                         *)
(* The persisted scenarios, cycles and pipelines are the state.  Every     *)
(* manager operation is one action that runs to completion.  An operation  *)
(* that takes a Scenario object is given the record that the repository    *)
(* currently holds for an id (what _get returns); the writes of _set store *)
(* whole records, as the repository does.  The order in which _get_all     *)
(* lists the repository is not fixed by the code, so a "first match" scan  *)
(* may return any match.  The scenario's creation_date and display_name    *)
(* take no part in any decision of the managers and are left out of the    *)
(* scenario record.                                                        *)
(*                                                                         *)
(* Specifications:                                                         *)
(*   Spec, SpecCore, SpecAll  the scenario manager, one operation at a     *)
(*                            time (SpecCore: without subscriptions;       *)
(*                            SpecAll: with _submit and _compare)          *)
(*   SpecSubmit, SpecCompare  subscriptions and submission; comparison     *)
(*   SpecCycle, SpecBucket    the cycle manager; the dates of one cycle    *)
(*   SpecRace                 _create and _set_master of two callers,      *)
(*                            interleaved at their reads and writes        *)
(***************************************************************************)
EXTENDS Integers, Sequences, FiniteSets, TLC

VARIABLES
    scenarios,   \* scenario repository: id -> persisted Scenario record
    cycles,      \* cycle repository: set of persisted Cycle records
    pipelines,   \* pipeline repository: set of persisted Pipeline records
    next_id,     \* number of scenario identities handed out by Scenario.new_id
    result,      \* outcome of the last operation: "ok" or the exception raised
    pm_calls,    \* calls made to the Pipeline Manager by the last operation
    compare_calls, \* calls made by the last _compare to the configuration,
                 \* the data nodes and the comparators
    callers,     \* the operations in progress of callers that interleave
    bucket       \* the frequency and dates of a cycle under construction

vars == <<scenarios, cycles, pipelines, next_id, result, pm_calls,
          compare_calls, callers, bucket>>

None == "None"

(***************************************************************************)
(* Bounds of the model.                                                    *)
(***************************************************************************)
MaxScenarios == 2
MaxSubscribers == 1
MaxCycles == 3
MaxCompared == 2

(***************************************************************************)
(* Calendar arithmetic of datetime, as far as the cycle manager uses it.   *)
(* A datetime is [year, month, day, second, microsecond] with second the   *)
(* second of the day.                                                      *)
(***************************************************************************)
SecondsPerDay == 86400
MicrosPerSecond == 1000000

is_leap(y) == (y % 4 = 0) /\ ((y % 100 # 0) \/ (y % 400 = 0))

monthrange(y, m) ==
    IF m = 2 THEN (IF is_leap(y) THEN 29 ELSE 28)
    ELSE IF m \in {4, 6, 9, 11} THEN 30 ELSE 31

RECURSIVE days_before_month(_, _)
days_before_month(y, m) ==
    IF m = 1 THEN 0 ELSE days_before_month(y, m - 1) + monthrange(y, m - 1)

days_before_year(y) ==
    LET p == y - 1 IN p * 365 + (p \div 4) - (p \div 100) + (p \div 400)

toordinal(d) == days_before_year(d.year) + days_before_month(d.year, d.month) + d.day

\* date.weekday(): Monday is 0.
weekday(d) == (toordinal(d) + 6) % 7

next_day(d) ==
    IF d.day < monthrange(d.year, d.month) THEN [d EXCEPT !.day = d.day + 1]
    ELSE IF d.month < 12 THEN [d EXCEPT !.month = d.month + 1, !.day = 1]
    ELSE [d EXCEPT !.year = d.year + 1, !.month = 1, !.day = 1]

prev_day(d) ==
    IF d.day > 1 THEN [d EXCEPT !.day = d.day - 1]
    ELSE IF d.month > 1
         THEN [d EXCEPT !.month = d.month - 1, !.day = monthrange(d.year, d.month - 1)]
    ELSE [d EXCEPT !.year = d.year - 1, !.month = 12, !.day = 31]

\* d + timedelta(days=n), n >= 0
RECURSIVE add_days(_, _)
add_days(d, n) == IF n = 0 THEN d ELSE add_days(next_day(d), n - 1)

\* d - timedelta(days=n), n >= 0
RECURSIVE sub_days(_, _)
sub_days(d, n) == IF n = 0 THEN d ELSE sub_days(prev_day(d), n - 1)

\* d - timedelta(microseconds=1)
sub_microsecond(d) ==
    IF d.microsecond > 0 THEN [d EXCEPT !.microsecond = d.microsecond - 1]
    ELSE IF d.second > 0
         THEN [d EXCEPT !.second = d.second - 1, !.microsecond = MicrosPerSecond - 1]
    ELSE [prev_day(d) EXCEPT !.second = SecondsPerDay - 1,
                             !.microsecond = MicrosPerSecond - 1]

\* d + timedelta(microseconds=1)
add_microsecond(d) ==
    IF d.microsecond < MicrosPerSecond - 1 THEN [d EXCEPT !.microsecond = d.microsecond + 1]
    ELSE IF d.second < SecondsPerDay - 1
         THEN [d EXCEPT !.second = d.second + 1, !.microsecond = 0]
    ELSE [next_day(d) EXCEPT !.second = 0, !.microsecond = 0]

\* a <= b for datetimes
datetime_le(a, b) ==
    LET ka == <<a.year, a.month, a.day, a.second, a.microsecond>>
        kb == <<b.year, b.month, b.day, b.second, b.microsecond>>
    IN \/ ka = kb
       \/ \E i \in 1..5 : ka[i] < kb[i] /\ \A j \in 1..(i - 1) : ka[j] = kb[j]

\* datetime.combine(date, time()): the date at time zero
combine_midnight(d) == [d EXCEPT !.second = 0, !.microsecond = 0]

datetime(y, m, d, s, us) ==
    [year |-> y, month |-> m, day |-> d, second |-> s, microsecond |-> us]

(***************************************************************************)
(* _CycleManager                                                           *)
(***************************************************************************)
Frequencies == {"DAILY", "WEEKLY", "MONTHLY", "YEARLY"}

\* Variant: the time of day of the creation date is kept.
_get_start_date_of_cycle_keeps_time(frequency, creation_date) ==
    LET d0 == creation_date
        d2 == IF frequency = "WEEKLY" THEN sub_days(d0, weekday(d0)) ELSE d0
        d3 == IF frequency = "MONTHLY" THEN [d2 EXCEPT !.day = 1] ELSE d2
    IN IF frequency = "YEARLY" THEN [d3 EXCEPT !.day = 1, !.month = 1] ELSE d3

_get_start_date_of_cycle(frequency, creation_date) ==
    LET d0 == creation_date
        d1 == IF frequency = "DAILY" THEN d0 ELSE d0
        d2 == IF frequency = "WEEKLY" THEN sub_days(d1, weekday(d1)) ELSE d1
        d3 == IF frequency = "MONTHLY" THEN [d2 EXCEPT !.day = 1] ELSE d2
        d4 == IF frequency = "YEARLY" THEN [d3 EXCEPT !.day = 1, !.month = 1] ELSE d3
    IN combine_midnight(d4)

\* Variant: a week ends six days after the weekday of its start.
_get_end_date_of_cycle_short_week(frequency, start_date) ==
    LET e0 == start_date
        e1 == IF frequency = "DAILY" THEN add_days(e0, 1) ELSE e0
        e2 == IF frequency = "WEEKLY" THEN add_days(e1, 6 - weekday(e1)) ELSE e1
        e3 == IF frequency = "MONTHLY"
              THEN add_days([e2 EXCEPT !.day = monthrange(start_date.year, start_date.month)], 1)
              ELSE e2
        e4 == IF frequency = "YEARLY"
              THEN add_days([e3 EXCEPT !.month = 12, !.day = 31], 1)
              ELSE e3
    IN sub_microsecond(e4)

_get_end_date_of_cycle(frequency, start_date) ==
    LET e0 == start_date
        e1 == IF frequency = "DAILY" THEN add_days(e0, 1) ELSE e0
        e2 == IF frequency = "WEEKLY" THEN add_days(e1, 7 - weekday(e1)) ELSE e1
        e3 == IF frequency = "MONTHLY"
              THEN add_days([e2 EXCEPT !.day = monthrange(start_date.year, start_date.month)], 1)
              ELSE e2
        e4 == IF frequency = "YEARLY"
              THEN add_days([e3 EXCEPT !.month = 12, !.day = 31], 1)
              ELSE e3
    IN sub_microsecond(e4)

\* The Cycle that _CycleManager._create builds and persists; its identity is fresh.
new_cycle(cs, frequency, creation_date) ==
    LET start_date == _get_start_date_of_cycle(frequency, creation_date)
    IN [id |-> Cardinality(cs) + 1,
        frequency |-> frequency,
        start_date |-> start_date,
        end_date |-> _get_end_date_of_cycle(frequency, start_date)]

get_cycles_by_frequency_and_start_date(cs, frequency, start_date) ==
    {c \in cs : c.frequency = frequency /\ c.start_date = start_date}

\* Variant: a cycle is created without looking for an existing one.
_get_or_create_always_creates(cs, frequency, creation_date) ==
    LET c == new_cycle(cs, frequency, creation_date)
    IN {[cycle |-> c, repo |-> cs \cup {c}]}

\* _get_or_create as a function of the cycle repository: the cycles it may
\* return (cycles[0] of the matches, or the one created), each with the
\* repository after the call.
_get_or_create(cs, frequency, creation_date) ==
    LET start_date == _get_start_date_of_cycle(frequency, creation_date)
        found == get_cycles_by_frequency_and_start_date(cs, frequency, start_date)
    IN IF Cardinality(found) > 0
       THEN {[cycle |-> c, repo |-> cs] : c \in found}
       ELSE LET c == new_cycle(cs, frequency, creation_date)
            IN {[cycle |-> c, repo |-> cs \cup {c}]}

(***************************************************************************)
(* Configuration store: the scenario configurations the model creates      *)
(* scenarios from.  "a" and "b" share a frequency (their scenarios share   *)
(* cycles), "b" restricts its tags, "c" has no frequency.                  *)
(***************************************************************************)
Tags == {"t1", "t2"}
Callbacks == {"cb1"}

_AUTHORIZED_TAGS_KEY == "authorized_tags"

NoProperties == [k \in {} |-> {}]

Config ==
    [a |-> [frequency |-> "WEEKLY", properties |-> NoProperties,
            pipeline_configs |-> <<"p_scn", "p_own", "p_glb">>,
            comparators |-> <<[data_node |-> "d1", comparators |-> <<"cmp1", "cmp2">>],
                              [data_node |-> "d2", comparators |-> <<"cmp1">>]>>],
     b |-> [frequency |-> "WEEKLY", properties |-> [authorized_tags |-> {"t1"}],
            pipeline_configs |-> <<"p_glb">>,
            comparators |-> <<[data_node |-> "d1", comparators |-> <<"cmp2">>]>>],
     c |-> [frequency |-> None, properties |-> [authorized_tags |-> {}],
            pipeline_configs |-> <<>>,
            comparators |-> <<>>]]

ConfigIds == DOMAIN Config

\* Wednesday 2 March 2022 10:00, the last microsecond of Sunday 6 March 2022
\* (same week), and Monday 7 March 2022 00:00 (the next week).
Instants ==
    {datetime(2022, 3, 2, 36000, 0),
     datetime(2022, 3, 6, SecondsPerDay - 1, MicrosPerSecond - 1),
     datetime(2022, 3, 7, 0, 0)}

\* An optional creation_date: <<>> is None, <<d>> is the datetime d.
OptInstants == {<<>>} \cup {<<d>> : d \in Instants}

(***************************************************************************)
(* Identities.  An id is <<entity, config id, n>>, n standing for the      *)
(* fresh part of the identity.                                             *)
(***************************************************************************)
NoId == <<"NONE", "", 0>>
NoCycle == 0

new_id(config_id, n) == <<"SCENARIO", config_id, n>>

(***************************************************************************)
(* Pipeline Manager (external collaborator).                               *)
(***************************************************************************)
\* The scope of the pipeline a pipeline configuration yields.
pipeline_scope ==
    [p_scn |-> "SCENARIO", p_own |-> "PIPELINE", p_glb |-> "GLOBAL"]

\* _PipelineManager._get_or_create(p_config, scenario_id): the Pipeline obtained.
\* A scenario-scoped pipeline has the scenario as parent, a pipeline of its own
\* scope is its own parent, a global pipeline has no parent and is shared.
pipeline_get_or_create(p_config, scenario_id) ==
    LET own == <<"PIPELINE", p_config, scenario_id[3]>>
    IN CASE pipeline_scope[p_config] = "SCENARIO" -> [id |-> own, parent_id |-> scenario_id]
         [] pipeline_scope[p_config] = "PIPELINE" -> [id |-> own, parent_id |-> own]
         [] OTHER -> [id |-> <<"PIPELINE", p_config, 0>>, parent_id |-> NoId]

\* _PipelineManager._hard_delete(pipeline_id, scenario_id) on the pipeline repository.
pipeline_hard_delete(repo, pipeline_id, scenario_id) == {p \in repo : p.id # pipeline_id}

\* The pipeline repository after a sequence of _hard_delete calls.
RECURSIVE pipeline_hard_delete_all(_, _)
pipeline_hard_delete_all(repo, calls) ==
    IF calls = <<>> THEN repo
    ELSE pipeline_hard_delete_all(
             pipeline_hard_delete(repo, Head(calls).pipeline_id, Head(calls).scenario_id),
             Tail(calls))

(***************************************************************************)
(* Scenario entity                                                         *)
(***************************************************************************)
properties_get(properties, key, default) ==
    IF key \in DOMAIN properties THEN properties[key] ELSE default

has_tag(scenario, tag) == tag \in scenario.tags

_add_tag(scenario, tag) == [scenario EXCEPT !.tags = @ \cup {tag}]

_remove_tag(scenario, tag) == [scenario EXCEPT !.tags = @ \ {tag}]

add_subscriber(scenario, callback) ==
    [scenario EXCEPT !.subscribers = Append(@, callback)]

RECURSIVE remove_first(_, _)
remove_first(seq, x) ==
    IF seq = <<>> THEN <<>>
    ELSE IF Head(seq) = x THEN Tail(seq)
    ELSE <<Head(seq)>> \o remove_first(Tail(seq), x)

remove_subscriber(scenario, callback) ==
    [scenario EXCEPT !.subscribers = remove_first(@, callback)]

(***************************************************************************)
(* Scenario repository                                                     *)
(***************************************************************************)
\* _set: store the whole record under its id.
_set(repo, scenario) ==
    [i \in DOMAIN repo \cup {scenario.id} |->
        IF i = scenario.id THEN scenario ELSE repo[i]]

\* _repository._delete
repository_delete(repo, scenario_id) ==
    [i \in DOMAIN repo \ {scenario_id} |-> repo[i]]

\* _get_all, as the set of ids of the persisted scenarios.
_get_all(repo) == DOMAIN repo

(***************************************************************************)
(* _ScenarioManager: queries                                               *)
(***************************************************************************)
\* Variant: the scenarios of every cycle are returned.
_get_all_by_cycle_of_any(repo, cycle) ==
    {s \in _get_all(repo) : repo[s].cycle # NoCycle}

_get_all_by_cycle(repo, cycle) ==
    {s \in _get_all(repo) : repo[s].cycle # NoCycle /\ repo[s].cycle = cycle}

\* Variant: the scan for the master finds nothing.
_get_master_finds_none(repo, cycle) == {NoId}

\* The values _get_master may return: the first master the scan meets, in
\* whatever order the repository lists the scenarios; None if there is none.
_get_master(repo, cycle) ==
    LET found == {s \in _get_all_by_cycle(repo, cycle) : repo[s].is_master}
    IN IF found # {} THEN found ELSE {NoId}

\* Variant: the scan for the tag holder finds nothing.
_get_by_tag_finds_none(repo, cycle, tag) == {NoId}

\* The values _get_by_tag may return, likewise.
_get_by_tag(repo, cycle, tag) ==
    LET found == {s \in _get_all_by_cycle(repo, cycle) : has_tag(repo[s], tag)}
    IN IF found # {} THEN found ELSE {NoId}

(***************************************************************************)
(* _ScenarioManager: operations.  Each takes the pre-state repositories    *)
(* from the unprimed variables and sets every primed variable.             *)
(***************************************************************************)
raise(exception) ==
    /\ result' = exception
    /\ pm_calls' = <<>>
    /\ UNCHANGED <<scenarios, cycles, pipelines, next_id>>

\* Variant: every scenario created in a cycle is made master.
is_master_scenario_always(repo, cycle) == cycle # NoCycle

\* Variant: a scenario without a cycle is looked up like any other.
is_master_scenario_without_cycle(repo, cycle) ==
    Cardinality(_get_all_by_cycle(repo, cycle)) = 0

\* is_master_scenario of _create
is_master_scenario(repo, cycle) ==
    IF cycle # NoCycle THEN Cardinality(_get_all_by_cycle(repo, cycle)) = 0 ELSE FALSE

_create(config_id, creation_date, now) ==
    /\ next_id < MaxScenarios
    /\ LET config == Config[config_id]
           scenario_id == new_id(config_id, next_id + 1)
           created == [i \in 1..Len(config.pipeline_configs) |->
                          pipeline_get_or_create(config.pipeline_configs[i], scenario_id)]
           date == IF Len(creation_date) > 0 THEN creation_date[1] ELSE now
           obtained == IF config.frequency # None
                       THEN {[cycle |-> g.cycle.id, repo |-> g.repo] :
                                g \in _get_or_create(cycles, config.frequency, date)}
                       ELSE {[cycle |-> NoCycle, repo |-> cycles]}
       IN \E g \in obtained :
            LET scenario == [id |-> scenario_id,
                             config_id |-> config_id,
                             pipelines |-> created,
                             properties |-> config.properties,
                             is_master |-> is_master_scenario(scenarios, g.cycle),
                             cycle |-> g.cycle,
                             tags |-> {},
                             subscribers |-> <<>>]
            IN /\ scenarios' = _set(scenarios, scenario)
               /\ cycles' = g.repo
               /\ pipelines' = pipelines \cup {created[i] : i \in DOMAIN created}
               /\ next_id' = next_id + 1
               /\ result' = "ok"
               /\ pm_calls' = <<>>

\* Variant: the previous master is left flagged.
_set_master_keeps_old(scenario_id) ==
    LET scenario == scenarios[scenario_id]
    IN IF scenario.cycle # NoCycle
       THEN /\ scenarios' = _set(scenarios, [scenario EXCEPT !.is_master = TRUE])
            /\ result' = "ok"
            /\ pm_calls' = <<>>
            /\ UNCHANGED <<cycles, pipelines, next_id>>
       ELSE raise("DoesNotBelongToACycle")

\* Variant: the target is flagged and persisted before the cycle is looked at.
_set_master_flags_first(scenario_id) ==
    LET scenario == scenarios[scenario_id]
        flagged == _set(scenarios, [scenario EXCEPT !.is_master = TRUE])
    IN IF scenario.cycle # NoCycle
       THEN /\ scenarios' =
                 [i \in DOMAIN flagged |->
                     IF i # scenario_id /\ flagged[i].cycle = scenario.cycle
                     THEN [flagged[i] EXCEPT !.is_master = FALSE] ELSE flagged[i]]
            /\ result' = "ok"
            /\ pm_calls' = <<>>
            /\ UNCHANGED <<cycles, pipelines, next_id>>
       ELSE /\ scenarios' = flagged
            /\ result' = "DoesNotBelongToACycle"
            /\ pm_calls' = <<>>
            /\ UNCHANGED <<cycles, pipelines, next_id>>

_set_master(scenario_id) ==
    LET scenario == scenarios[scenario_id]
    IN IF scenario.cycle # NoCycle
       THEN \E master_scenario \in _get_master(scenarios, scenario.cycle) :
              LET unflagged == IF master_scenario # NoId
                               THEN _set(scenarios,
                                         [scenarios[master_scenario] EXCEPT !.is_master = FALSE])
                               ELSE scenarios
              IN /\ scenarios' = _set(unflagged, [scenario EXCEPT !.is_master = TRUE])
                 /\ result' = "ok"
                 /\ pm_calls' = <<>>
                 /\ UNCHANGED <<cycles, pipelines, next_id>>
       ELSE raise("DoesNotBelongToACycle")

\* Variant: the tag is added without taking it from its previous holder.
_tag_no_transfer(scenario_id, tag) ==
    LET scenario == scenarios[scenario_id]
        tags == properties_get(scenario.properties, _AUTHORIZED_TAGS_KEY, {})
    IN IF Cardinality(tags) > 0 /\ tag \notin tags
       THEN raise("UnauthorizedTagError")
       ELSE /\ scenarios' = _set(scenarios, _add_tag(scenario, tag))
            /\ result' = "ok"
            /\ pm_calls' = <<>>
            /\ UNCHANGED <<cycles, pipelines, next_id>>

\* Variant: the previous holder loses the tag before the authorization check.
_tag_checks_late(scenario_id, tag) ==
    LET scenario == scenarios[scenario_id]
        tags == properties_get(scenario.properties, _AUTHORIZED_TAGS_KEY, {})
    IN \E old_tagged_scenario \in
            (IF scenario.cycle # NoCycle
             THEN _get_by_tag(scenarios, scenario.cycle, tag) ELSE {NoId}) :
         LET removed == IF old_tagged_scenario # NoId
                        THEN _set(scenarios,
                                  _remove_tag(scenarios[old_tagged_scenario], tag))
                        ELSE scenarios
         IN IF Cardinality(tags) > 0 /\ tag \notin tags
            THEN /\ scenarios' = removed
                 /\ result' = "UnauthorizedTagError"
                 /\ pm_calls' = <<>>
                 /\ UNCHANGED <<cycles, pipelines, next_id>>
            ELSE /\ scenarios' = _set(removed, _add_tag(scenario, tag))
                 /\ result' = "ok"
                 /\ pm_calls' = <<>>
                 /\ UNCHANGED <<cycles, pipelines, next_id>>

_tag(scenario_id, tag) ==
    LET scenario == scenarios[scenario_id]
        tags == properties_get(scenario.properties, _AUTHORIZED_TAGS_KEY, {})
    IN IF Cardinality(tags) > 0 /\ tag \notin tags
       THEN raise("UnauthorizedTagError")
       ELSE \E old_tagged_scenario \in
                 (IF scenario.cycle # NoCycle
                  THEN _get_by_tag(scenarios, scenario.cycle, tag) ELSE {NoId}) :
              LET removed == IF old_tagged_scenario # NoId
                             THEN _set(scenarios,
                                       _remove_tag(scenarios[old_tagged_scenario], tag))
                             ELSE scenarios
              IN /\ scenarios' = _set(removed, _add_tag(scenario, tag))
                 /\ result' = "ok"
                 /\ pm_calls' = <<>>
                 /\ UNCHANGED <<cycles, pipelines, next_id>>

\* Variant: the scenario is persisted without its is_master flag.
_untag_resets_master(scenario_id, tag) ==
    /\ scenarios' = _set(scenarios, [_remove_tag(scenarios[scenario_id], tag)
                                        EXCEPT !.is_master = FALSE])
    /\ result' = "ok"
    /\ pm_calls' = <<>>
    /\ UNCHANGED <<cycles, pipelines, next_id>>

_untag(scenario_id, tag) ==
    /\ scenarios' = _set(scenarios, _remove_tag(scenarios[scenario_id], tag))
    /\ result' = "ok"
    /\ pm_calls' = <<>>
    /\ UNCHANGED <<cycles, pipelines, next_id>>

\* Variant: the master guard is missing.
_delete_unguarded(scenario_id) ==
    /\ scenarios' = repository_delete(scenarios, scenario_id)
    /\ result' = "ok"
    /\ pm_calls' = <<>>
    /\ UNCHANGED <<cycles, pipelines, next_id>>

_delete(scenario_id) ==
    IF scenarios[scenario_id].is_master
    THEN raise("DeletingMasterScenario")
    ELSE /\ scenarios' = repository_delete(scenarios, scenario_id)
         /\ result' = "ok"
         /\ pm_calls' = <<>>
         /\ UNCHANGED <<cycles, pipelines, next_id>>

\* Variant: only the pipelines whose parent is the scenario are selected.
hard_delete_selects_scenario_owned(pipeline, scenario) ==
    pipeline.parent_id = scenario.id

\* The test of _hard_delete that selects the pipelines to hard delete.
hard_delete_selects(pipeline, scenario) ==
    pipeline.parent_id = scenario.id \/ pipeline.parent_id = pipeline.id

\* The _PipelineManager._hard_delete calls of _hard_delete's loop over the
\* pipelines ps of the scenario, in order.
RECURSIVE hard_delete_calls(_, _)
hard_delete_calls(ps, scenario) ==
    IF ps = <<>> THEN <<>>
    ELSE (IF hard_delete_selects(Head(ps), scenario)
          THEN <<[fct |-> "_hard_delete", pipeline_id |-> Head(ps).id,
                  scenario_id |-> scenario.id]>>
          ELSE <<>>) \o hard_delete_calls(Tail(ps), scenario)

\* Variant: the pipelines are hard deleted before the master guard is tested.
_hard_delete_guards_late(scenario_id) ==
    LET scenario == scenarios[scenario_id]
        calls == hard_delete_calls(scenario.pipelines, scenario)
    IN /\ pm_calls' = calls
       /\ pipelines' = pipeline_hard_delete_all(pipelines, calls)
       /\ IF scenario.is_master
          THEN result' = "DeletingMasterScenario" /\ UNCHANGED scenarios
          ELSE result' = "ok" /\ scenarios' = repository_delete(scenarios, scenario_id)
       /\ UNCHANGED <<cycles, next_id>>

_hard_delete(scenario_id) ==
    LET scenario == scenarios[scenario_id]
    IN IF scenario.is_master
       THEN raise("DeletingMasterScenario")
       ELSE LET calls == hard_delete_calls(scenario.pipelines, scenario)
            IN /\ pm_calls' = calls
               /\ pipelines' = pipeline_hard_delete_all(pipelines, calls)
               /\ scenarios' = repository_delete(scenarios, scenario_id)
               /\ result' = "ok"
               /\ UNCHANGED <<cycles, next_id>>

\* _subscribe / _unsubscribe: targets is every persisted scenario when no
\* scenario is given, else the one given.
RECURSIVE add_subscriber_to_each(_, _, _)
add_subscriber_to_each(repo, targets, callback) ==
    IF targets = {} THEN repo
    ELSE LET scn == CHOOSE t \in targets : TRUE
         IN add_subscriber_to_each(_set(repo, add_subscriber(repo[scn], callback)),
                                   targets \ {scn}, callback)

RECURSIVE remove_subscriber_from_each(_, _, _)
remove_subscriber_from_each(repo, targets, callback) ==
    IF targets = {} THEN repo
    ELSE LET scn == CHOOSE t \in targets : TRUE
         IN remove_subscriber_from_each(_set(repo, remove_subscriber(repo[scn], callback)),
                                        targets \ {scn}, callback)

_subscribe(callback, targets) ==
    /\ scenarios' = add_subscriber_to_each(scenarios, targets, callback)
    /\ result' = "ok"
    /\ pm_calls' = <<>>
    /\ UNCHANGED <<cycles, pipelines, next_id>>

\* Variant: the callback is removed from every persisted scenario, whatever
\* scenario is given.
_unsubscribe_from_all(callback, targets) ==
    /\ scenarios' = remove_subscriber_from_each(scenarios, _get_all(scenarios), callback)
    /\ result' = "ok"
    /\ pm_calls' = <<>>
    /\ UNCHANGED <<cycles, pipelines, next_id>>

_unsubscribe(callback, targets) ==
    /\ scenarios' = remove_subscriber_from_each(scenarios, targets, callback)
    /\ result' = "ok"
    /\ pm_calls' = <<>>
    /\ UNCHANGED <<cycles, pipelines, next_id>>

\* __get_status_notifier_callbacks: partial(c, scenario) for each subscriber c,
\* in the order of scenario.subscribers; <<c, id>> is c bound to the scenario.
get_status_notifier_callbacks(scenario) ==
    [j \in 1..Len(scenario.subscribers) |-> <<scenario.subscribers[j], scenario.id>>]

\* Variant: the force flag is not handed on.
_submit_unforced(scenario_id, force) ==
    IF scenario_id \notin DOMAIN scenarios
    THEN raise("NonExistingScenario")
    ELSE LET scenario == scenarios[scenario_id]
             callbacks == get_status_notifier_callbacks(scenario)
         IN /\ pm_calls' = [i \in 1..Len(scenario.pipelines) |->
                               [fct |-> "_submit",
                                pipeline_id |-> scenario.pipelines[i].id,
                                callbacks |-> callbacks,
                                force |-> FALSE]]
            /\ result' = "ok"
            /\ UNCHANGED <<scenarios, cycles, pipelines, next_id>>

\* _submit(scenario, force): scenario_id is the id of the Scenario given, or
\* the id given; the scenario submitted is the one _get(scenario_id) returns.
_submit(scenario_id, force) ==
    IF scenario_id \notin DOMAIN scenarios
    THEN raise("NonExistingScenario")
    ELSE LET scenario == scenarios[scenario_id]
             callbacks == get_status_notifier_callbacks(scenario)
         IN /\ pm_calls' = [i \in 1..Len(scenario.pipelines) |->
                               [fct |-> "_submit",
                                pipeline_id |-> scenario.pipelines[i].id,
                                callbacks |-> callbacks,
                                force |-> force]]
            /\ result' = "ok"
            /\ UNCHANGED <<scenarios, cycles, pipelines, next_id>>

\* The calls _compare makes: Config.scenarios.get for a scenario config id,
\* read() of a data node of a scenario, and a comparator on the values read.
config_get(config_id) ==
    [fct |-> "Config.scenarios.get", scenario_id |-> NoId, data_node |-> "",
     name |-> config_id]
data_node_read(scenario_id, data_node) ==
    [fct |-> "read", scenario_id |-> scenario_id, data_node |-> data_node, name |-> ""]
comparator_call(comparator, data_node) ==
    [fct |-> "comparator", scenario_id |-> NoId, data_node |-> data_node,
     name |-> comparator]

\* One round of the loop over dn_comparators: the data node of every scenario
\* is read, in the order of the scenarios, then every comparator is called.
compare_data_node(scenario_ids, entry) ==
    [i \in 1..Len(scenario_ids) |-> data_node_read(scenario_ids[i], entry.data_node)]
    \o [k \in 1..Len(entry.comparators) |->
           comparator_call(entry.comparators[k], entry.data_node)]

RECURSIVE compare_data_nodes(_, _)
compare_data_nodes(scenario_ids, dn_comparators) ==
    IF dn_comparators = <<>> THEN <<>>
    ELSE compare_data_node(scenario_ids, Head(dn_comparators))
         \o compare_data_nodes(scenario_ids, Tail(dn_comparators))

\* The entries of comparators whose key is data_node_config_id.
comparators_of(comparators, data_node_config_id) ==
    SelectSeq(comparators, LAMBDA e : e.data_node = data_node_config_id)

\* Variant: the scenario config is resolved before the scenarios are counted
\* and their config ids compared.
_compare_resolves_first(scenario_ids, data_node_config_id, registered) ==
    LET config_id == scenarios[scenario_ids[1]].config_id
    IN IF Len(scenario_ids) = 0
       THEN raise("InsufficientScenarioToCompare") /\ compare_calls' = <<>>
       ELSE IF config_id \notin registered
       THEN raise("NonExistingScenarioConfig") /\ compare_calls' = <<config_get(config_id)>>
       ELSE IF Len(scenario_ids) < 2
       THEN raise("InsufficientScenarioToCompare")
            /\ compare_calls' = <<config_get(config_id)>>
       ELSE IF \E i \in DOMAIN scenario_ids : scenarios[scenario_ids[i]].config_id # config_id
       THEN raise("DifferentScenarioConfigs") /\ compare_calls' = <<config_get(config_id)>>
       ELSE IF /\ data_node_config_id # None
               /\ comparators_of(Config[config_id].comparators, data_node_config_id) = <<>>
       THEN raise("NonExistingComparator") /\ compare_calls' = <<config_get(config_id)>>
       ELSE LET dn_comparators ==
                    IF data_node_config_id # None
                    THEN comparators_of(Config[config_id].comparators, data_node_config_id)
                    ELSE Config[config_id].comparators
            IN /\ compare_calls' = <<config_get(config_id)>>
                                      \o compare_data_nodes(scenario_ids, dn_comparators)
               /\ result' = "ok"
               /\ pm_calls' = <<>>
               /\ UNCHANGED <<scenarios, cycles, pipelines, next_id>>

\* _compare(*scenarios, data_node_config_id): scenario_ids lists the scenarios
\* given, registered is the set of scenario config ids that Config.scenarios
\* holds when the operation runs.
_compare(scenario_ids, data_node_config_id, registered) ==
    LET config_id == scenarios[scenario_ids[1]].config_id
    IN IF Len(scenario_ids) < 2
       THEN raise("InsufficientScenarioToCompare") /\ compare_calls' = <<>>
       ELSE IF \E i \in DOMAIN scenario_ids : scenarios[scenario_ids[i]].config_id # config_id
       THEN raise("DifferentScenarioConfigs") /\ compare_calls' = <<>>
       ELSE IF config_id \notin registered
       THEN raise("NonExistingScenarioConfig") /\ compare_calls' = <<config_get(config_id)>>
       ELSE IF /\ data_node_config_id # None
               /\ comparators_of(Config[config_id].comparators, data_node_config_id) = <<>>
       THEN raise("NonExistingComparator") /\ compare_calls' = <<config_get(config_id)>>
       ELSE LET dn_comparators ==
                    IF data_node_config_id # None
                    THEN comparators_of(Config[config_id].comparators, data_node_config_id)
                    ELSE Config[config_id].comparators
            IN /\ compare_calls' = <<config_get(config_id)>>
                                      \o compare_data_nodes(scenario_ids, dn_comparators)
               /\ result' = "ok"
               /\ pm_calls' = <<>>
               /\ UNCHANGED <<scenarios, cycles, pipelines, next_id>>

(***************************************************************************)
(* The system: the operations a caller may invoke, one at a time, on the   *)
(* persisted scenarios.                                                    *)
(***************************************************************************)
\* The callers whose operations may interleave, and a caller that is in no
\* operation.
Callers == {"caller1", "caller2"}
Idle == [op |-> "idle"]

Init ==
    /\ scenarios = [i \in {} |-> {}]
    /\ cycles = {}
    /\ pipelines = {}
    /\ next_id = 0
    /\ result = "ok"
    /\ pm_calls = <<>>
    /\ compare_calls = <<>>
    /\ callers = [c \in Callers |-> Idle]
    /\ bucket = <<>>

Persisted == DOMAIN scenarios

\* The scenario argument of _subscribe / _unsubscribe: None (all) or one scenario.
SubscribeTargets == {_get_all(scenarios)} \cup {{s} : s \in Persisted}

\* datetime.now() is read only when no creation_date is given.
Create ==
    /\ \E config_id \in ConfigIds, creation_date \in OptInstants :
          \E now \in (IF Len(creation_date) > 0 THEN {creation_date[1]} ELSE Instants) :
              _create(config_id, creation_date, now)
    /\ UNCHANGED <<compare_calls, callers, bucket>>
SetMaster ==
    /\ \E s \in Persisted : _set_master(s)
    /\ UNCHANGED <<compare_calls, callers, bucket>>
Tag ==
    /\ \E s \in Persisted, tag \in Tags : _tag(s, tag)
    /\ UNCHANGED <<compare_calls, callers, bucket>>
Untag ==
    /\ \E s \in Persisted, tag \in Tags : _untag(s, tag)
    /\ UNCHANGED <<compare_calls, callers, bucket>>
Delete ==
    /\ \E s \in Persisted : _delete(s)
    /\ UNCHANGED <<compare_calls, callers, bucket>>
HardDelete ==
    /\ \E s \in Persisted : _hard_delete(s)
    /\ UNCHANGED <<compare_calls, callers, bucket>>
Subscribe ==
    /\ \E callback \in Callbacks, targets \in SubscribeTargets :
          /\ \A t \in targets : Len(scenarios[t].subscribers) < MaxSubscribers
          /\ _subscribe(callback, targets)
    /\ UNCHANGED <<compare_calls, callers, bucket>>
Unsubscribe ==
    /\ \E callback \in Callbacks, targets \in SubscribeTargets :
          _unsubscribe(callback, targets)
    /\ UNCHANGED <<compare_calls, callers, bucket>>

Next ==
    \/ Create
    \/ SetMaster
    \/ Tag
    \/ Untag
    \/ Delete
    \/ HardDelete
    \/ Subscribe
    \/ Unsubscribe

Spec == Init /\ [][Next]_vars

\* The operations that write is_master, tags or the repositories' contents:
\* the system without subscriptions.
NextCore ==
    \/ Create
    \/ SetMaster
    \/ Tag
    \/ Untag
    \/ Delete
    \/ HardDelete

SpecCore == Init /\ [][NextCore]_vars

(***************************************************************************)
(* Properties                                                              *)
(***************************************************************************)
CycleIds == {c.id : c \in cycles}

ScenariosOf(repo, cycle) == {s \in DOMAIN repo : repo[s].cycle = cycle}

MastersOf(repo, cycle) == {s \in ScenariosOf(repo, cycle) : repo[s].is_master}

HoldersOf(repo, cycle, tag) == {s \in ScenariosOf(repo, cycle) : tag \in repo[s].tags}

\* C1: in every state reached by completed operations, every cycle has at
\* most one persisted scenario with is_master = TRUE.
C1_AtMostOneMasterPerCycle ==
    \A c \in CycleIds : Cardinality(MastersOf(scenarios, c)) <= 1

\* A cycle with two scenarios whose master is the one created later:
\* SetMaster has moved the flag.
C1_Witness ==
    \E s1, s2 \in Persisted :
        /\ s1[3] < s2[3]
        /\ scenarios[s1].cycle # NoCycle
        /\ scenarios[s1].cycle = scenarios[s2].cycle
        /\ scenarios[s2].is_master
        /\ ~scenarios[s1].is_master

\* C2: once a scenario has been created in a cycle, the cycle has exactly one
\* master in every later state: after any step, a cycle that had a scenario
\* before the step or has one after it has exactly one master (and so still
\* has a scenario for the next step).
C2_ExactlyOneMasterPerCycle ==
    [][\A c \in {k.id : k \in cycles'} :
          ScenariosOf(scenarios, c) # {} \/ ScenariosOf(scenarios', c) # {}
          => Cardinality(MastersOf(scenarios', c)) = 1]_vars

\* The first scenario of a cycle has been deleted after the flag moved to the
\* second, which is now the cycle's only scenario and its master.
C2_Witness ==
    \E s \in Persisted :
        /\ s[3] = 2
        /\ scenarios[s].cycle # NoCycle
        /\ ScenariosOf(scenarios, scenarios[s].cycle) = {s}
        /\ scenarios[s].is_master
        /\ Cardinality(cycles) = 1
        /\ next_id = 2

\* C3: for every cycle and every tag, at most one persisted scenario of the
\* cycle holds the tag.
C3_AtMostOneHolderPerTagPerCycle ==
    \A c \in CycleIds, t \in Tags : Cardinality(HoldersOf(scenarios, c, t)) <= 1

\* Two scenarios of one cycle are tagged, each with another tag.
C3_Witness ==
    \E s1, s2 \in Persisted :
        /\ s1 # s2
        /\ scenarios[s1].cycle # NoCycle
        /\ scenarios[s1].cycle = scenarios[s2].cycle
        /\ scenarios[s1].tags = {"t1"}
        /\ scenarios[s2].tags = {"t2"}

\* C4: Delete and HardDelete of a scenario that is master fail with
\* DeletingMasterScenario and leave the scenarios, cycles and pipelines
\* unchanged, with no call to the Pipeline Manager; and no step removes a
\* scenario whose is_master flag is TRUE.
C4_MasterIsNotDeleted ==
    [][/\ \A s \in Persisted :
              scenarios[s].is_master /\ (_delete(s) \/ _hard_delete(s))
              => /\ result' = "DeletingMasterScenario"
                 /\ pm_calls' = <<>>
                 /\ UNCHANGED <<scenarios, cycles, pipelines, next_id>>
       /\ \A s \in Persisted :
              scenarios[s].is_master => s \in DOMAIN scenarios']_vars

\* A delete was rejected while the master owns a persisted pipeline.
C4_Witness ==
    /\ result = "DeletingMasterScenario"
    /\ \E s \in Persisted :
          /\ scenarios[s].is_master
          /\ \E i \in DOMAIN scenarios[s].pipelines :
                /\ scenarios[s].pipelines[i].parent_id = s
                /\ scenarios[s].pipelines[i] \in pipelines

\* The pipelines for which the last operation called _PipelineManager._hard_delete.
HardDeleted(calls) ==
    {calls[i].pipeline_id : i \in {j \in DOMAIN calls : calls[j].fct = "_hard_delete"}}

C6_FirstInCycleIsMaster ==
    [][\A config_id \in ConfigIds, creation_date \in OptInstants, now \in Instants :
          next_id' = next_id + 1 /\ _create(config_id, creation_date, now)
          => LET s == new_id(config_id, next_id + 1)
                 c == scenarios'[s].cycle
             IN /\ Config[config_id].frequency # None
                   => /\ c # NoCycle
                      /\ scenarios'[s].is_master <=> ScenariosOf(scenarios, c) = {}
                      /\ c \notin CycleIds => scenarios'[s].is_master
                      /\ c \in CycleIds => ~scenarios'[s].is_master
                /\ \A o \in Persisted :
                      /\ o \in DOMAIN scenarios'
                      /\ scenarios'[o].is_master = scenarios[o].is_master]_vars

\* Two scenarios created in one cycle: the first is master, the second is not.
C6_Witness ==
    \E s1, s2 \in Persisted :
        /\ s1[3] = 1 /\ s2[3] = 2
        /\ scenarios[s1].cycle # NoCycle
        /\ scenarios[s1].cycle = scenarios[s2].cycle
        /\ scenarios[s1].is_master
        /\ ~scenarios[s2].is_master
        /\ scenarios[s2].tags = {} /\ scenarios[s1].tags = {}

\* C7: after SetMaster(B) for a scenario B of a cycle, GetMaster of B's cycle
\* returns B and every other scenario of the cycle is not master, also when B
\* was the master already.
C7_SetMasterElects ==
    [][\A b \in Persisted :
          scenarios[b].cycle # NoCycle /\ _set_master(b)
          => /\ result' = "ok"
             /\ _get_master(scenarios', scenarios[b].cycle) = {b}
             /\ \A o \in ScenariosOf(scenarios', scenarios[b].cycle) \ {b} :
                   ~scenarios'[o].is_master]_vars

\* SetMaster has moved the flag from the first scenario of a cycle, which is
\* tagged, to the second.
C7_Witness ==
    /\ result = "ok"
    /\ \E a, b \in Persisted :
          /\ a[3] < b[3]
          /\ scenarios[a].cycle # NoCycle
          /\ scenarios[a].cycle = scenarios[b].cycle
          /\ _get_master(scenarios, scenarios[b].cycle) = {b}
          /\ ~scenarios[a].is_master
          /\ scenarios[a].tags # {}

\* C8: if A holds tag t and B is another scenario of A's cycle, then after a
\* Tag(B, t) that completes A no longer holds t, B holds it, GetByTag of the
\* cycle and t returns B, and the other tags of A and B are unchanged.
C8_TagTransfers ==
    [][\A a, b \in Persisted, t \in Tags :
          /\ a # b
          /\ scenarios[a].cycle # NoCycle
          /\ scenarios[a].cycle = scenarios[b].cycle
          /\ has_tag(scenarios[a], t)
          /\ _tag(b, t)
          /\ result' = "ok"
          => /\ scenarios'[a].tags = scenarios[a].tags \ {t}
             /\ scenarios'[b].tags = scenarios[b].tags \cup {t}
             /\ _get_by_tag(scenarios', scenarios[b].cycle, t) = {b}]_vars

\* The scenario of configuration "b" holds t1 and a scenario of its cycle
\* created before it holds t2 only.
C8_Witness ==
    \E a, b \in Persisted :
        /\ a[3] < b[3]
        /\ scenarios[b].config_id = "b"
        /\ scenarios[a].cycle = scenarios[b].cycle
        /\ scenarios[b].tags = {"t1"}
        /\ scenarios[a].tags = {"t2"}
        /\ result = "ok"

\* The authorized_tags of a scenario; the empty set when the property is absent.
AuthorizedTags(scenario) ==
    IF _AUTHORIZED_TAGS_KEY \in DOMAIN scenario.properties
    THEN scenario.properties[_AUTHORIZED_TAGS_KEY] ELSE {}

\* C9: Tag(scenario, t) with a non-empty authorized_tags that lacks t fails
\* with UnauthorizedTagError and leaves the persisted state unchanged; with
\* authorized_tags empty or absent the tag is accepted.
C9_UnauthorizedTagRejected ==
    [][\A s \in Persisted, t \in Tags :
          _tag(s, t)
          => IF AuthorizedTags(scenarios[s]) # {} /\ t \notin AuthorizedTags(scenarios[s])
             THEN /\ result' = "UnauthorizedTagError"
                  /\ UNCHANGED <<scenarios, cycles, pipelines, next_id>>
             ELSE /\ AuthorizedTags(scenarios[s]) = {}
                     => /\ result' = "ok"
                        /\ t \in scenarios'[s].tags]_vars

\* A tag was refused to a scenario whose cycle has a holder of that tag.
C9_Witness ==
    /\ result = "UnauthorizedTagError"
    /\ \E s, o \in Persisted :
          /\ s # o
          /\ AuthorizedTags(scenarios[s]) = {"t1"}
          /\ scenarios[o].cycle = scenarios[s].cycle
          /\ "t2" \in scenarios[o].tags

\* C10: SetMaster of a scenario without a cycle fails with
\* DoesNotBelongToACycle and writes nothing.
C10_SetMasterNeedsCycle ==
    [][\A s \in Persisted :
          scenarios[s].cycle = NoCycle /\ _set_master(s)
          => /\ result' = "DoesNotBelongToACycle"
             /\ pm_calls' = <<>>
             /\ UNCHANGED <<scenarios, cycles, pipelines, next_id>>]_vars

\* SetMaster was refused, and the cycle-less scenario shares the repository
\* with a master.
C10_Witness ==
    /\ result = "DoesNotBelongToACycle"
    /\ \E s, m \in Persisted :
          /\ scenarios[s].cycle = NoCycle
          /\ ~scenarios[s].is_master
          /\ scenarios[m].is_master

(***************************************************************************)
(* The cycle manager on its own: callers obtain cycles with               *)
(* _CycleManager._get_or_create; the scenario repository stays empty.      *)
(***************************************************************************)
\* Instants around the ends of a week, of a leap February and of a year:
\* Wed 28 Feb 2024 10:00, the last microsecond of Thu 29 Feb 2024, Sun 3 Mar
\* 2024 12:00 (same week, next month), the last microsecond of Sun 31 Dec 2023
\* and Mon 1 Jan 2024 00:00.
CycleInstants ==
    {datetime(2024, 2, 28, 36000, 0),
     datetime(2024, 2, 29, SecondsPerDay - 1, MicrosPerSecond - 1),
     datetime(2024, 3, 3, 43200, 0),
     datetime(2023, 12, 31, SecondsPerDay - 1, MicrosPerSecond - 1),
     datetime(2024, 1, 1, 0, 0)}

\* _CycleManager._get_or_create(frequency, creation_date); datetime.now() is
\* read when no creation_date is given.
GetOrCreate ==
    \E frequency \in Frequencies, creation_date \in {<<>>} \cup {<<d>> : d \in CycleInstants} :
      \E now \in (IF Len(creation_date) > 0 THEN {creation_date[1]} ELSE CycleInstants) :
        \E g \in _get_or_create(cycles, frequency,
                                IF Len(creation_date) > 0 THEN creation_date[1] ELSE now) :
           /\ Cardinality(g.repo) <= MaxCycles
           /\ cycles' = g.repo
           /\ result' = "ok"
           /\ pm_calls' = <<>>
           /\ UNCHANGED <<scenarios, pipelines, next_id, compare_calls, callers, bucket>>

NextCycle == GetOrCreate

SpecCycle == Init /\ [][NextCycle]_vars

\* C11: after any sequence of getOrCreate calls at most one cycle is persisted
\* per (frequency, bucket start) and identities are distinct; and of two
\* further calls with one frequency, the second returns the identity the first
\* returned and creates nothing when the instants are in the same bucket, and
\* returns another identity when they are in different buckets.
C11_OneCyclePerBucket ==
    /\ \A c1, c2 \in cycles :
          (c1.frequency = c2.frequency /\ c1.start_date = c2.start_date) \/ c1.id = c2.id
          => c1 = c2
    /\ \A frequency \in Frequencies, t1, t2 \in CycleInstants :
          \A g1 \in _get_or_create(cycles, frequency, t1) :
             \A g2 \in _get_or_create(g1.repo, frequency, t2) :
                IF _get_start_date_of_cycle(frequency, t1)
                     = _get_start_date_of_cycle(frequency, t2)
                THEN g2.cycle.id = g1.cycle.id /\ g2.repo = g1.repo
                ELSE g2.cycle.id # g1.cycle.id

\* Three cycles are persisted: two weeks, and the year that starts on the same
\* day as one of the weeks.
C11_Witness ==
    \E c1, c2, c3 \in cycles :
        /\ c1.frequency = "WEEKLY" /\ c2.frequency = "WEEKLY"
        /\ c1.start_date # c2.start_date
        /\ c3.frequency = "YEARLY"
        /\ c3.start_date = c1.start_date
        /\ Cardinality({c1.id, c2.id, c3.id}) = 3

(***************************************************************************)
(* The dates of one cycle, as _CycleManager._create computes them from a   *)
(* frequency and a creation date.                                          *)
(***************************************************************************)
\* Creation dates: every day of a leap year divisible by 400, a common year,
\* a leap year and a common year divisible by 100, at the first instant of
\* the day, in the middle of the day and at the last instant of the day.
BucketYears == {2000, 2023, 2024, 2100}

BucketTimes ==
    {<<0, 0>>, <<43200, 500000>>, <<SecondsPerDay - 1, MicrosPerSecond - 1>>}

BucketInstants ==
    {datetime(y, m, d, t[1], t[2]) :
        y \in BucketYears, m \in 1..12, d \in 1..31, t \in BucketTimes}
    \ {i \in {datetime(y, m, d, t[1], t[2]) :
                 y \in BucketYears, m \in 1..12, d \in 29..31, t \in BucketTimes} :
          i.day > monthrange(i.year, i.month)}

InitBucket ==
    /\ scenarios = [i \in {} |-> {}]
    /\ cycles = {}
    /\ pipelines = {}
    /\ next_id = 0
    /\ result = "ok"
    /\ pm_calls = <<>>
    /\ compare_calls = <<>>
    /\ callers = [c \in Callers |-> Idle]
    /\ bucket \in {[frequency |-> f, creation_date |-> t] :
                      f \in Frequencies, t \in BucketInstants}

\* start_date = _CycleManager._get_start_date_of_cycle(frequency, creation_date)
StartDate ==
    /\ DOMAIN bucket = {"frequency", "creation_date"}
    /\ bucket' = [frequency |-> bucket.frequency,
                  creation_date |-> bucket.creation_date,
                  start_date |-> _get_start_date_of_cycle(bucket.frequency,
                                                          bucket.creation_date)]
    /\ UNCHANGED <<scenarios, cycles, pipelines, next_id, result, pm_calls,
                   compare_calls, callers>>

\* end_date = _CycleManager._get_end_date_of_cycle(frequency, start_date)
EndDate ==
    /\ DOMAIN bucket = {"frequency", "creation_date", "start_date"}
    /\ bucket' = [frequency |-> bucket.frequency,
                  creation_date |-> bucket.creation_date,
                  start_date |-> bucket.start_date,
                  end_date |-> _get_end_date_of_cycle(bucket.frequency,
                                                      bucket.start_date)]
    /\ UNCHANGED <<scenarios, cycles, pipelines, next_id, result, pm_calls,
                   compare_calls, callers>>

NextBucket ==
    \/ StartDate
    \/ EndDate

SpecBucket == InitBucket /\ [][NextBucket]_vars

\* C12: for every frequency and creation date, the start date of the cycle is
\* a fixed point of _get_start_date_of_cycle, and the creation date lies in
\* the closed interval from the start date to the end date computed from it.
C12_StartIdempotentAndCovers ==
    /\ "start_date" \in DOMAIN bucket =>
          /\ bucket.start_date
                = _get_start_date_of_cycle(bucket.frequency, bucket.creation_date)
          /\ _get_start_date_of_cycle(bucket.frequency, bucket.start_date)
                = bucket.start_date
    /\ "end_date" \in DOMAIN bucket =>
          /\ bucket.end_date = _get_end_date_of_cycle(bucket.frequency, bucket.start_date)
          /\ datetime_le(bucket.start_date, bucket.creation_date)
          /\ datetime_le(bucket.creation_date, bucket.end_date)

\* The week of the last instant of 29 February 2024: it ends in March.
C12_Witness ==
    /\ "end_date" \in DOMAIN bucket
    /\ bucket.frequency = "WEEKLY"
    /\ bucket.creation_date
         = datetime(2024, 2, 29, SecondsPerDay - 1, MicrosPerSecond - 1)
    /\ bucket.start_date = datetime(2024, 2, 26, 0, 0)
    /\ bucket.end_date.month = 3

\* C18: for every frequency and every start date S of a cycle, the end date
\* computed from S lies in the cycle that starts at S, and the instant one
\* microsecond after the end date is itself the start date of a cycle, which
\* is not S.
C18_EndIsOneMicrosecondBeforeNextStart ==
    "end_date" \in DOMAIN bucket =>
        LET F == bucket.frequency
            S == _get_start_date_of_cycle(F, bucket.creation_date)
            E == _get_end_date_of_cycle(F, S)
            N == add_microsecond(E)
        IN /\ bucket.start_date = S
           /\ bucket.end_date = E
           /\ _get_start_date_of_cycle(F, E) = S
           /\ _get_start_date_of_cycle(F, N) = N
           /\ N # S
           /\ datetime_le(S, N)

\* The month of February 2100, a year divisible by 100: it ends on the 28th.
C18_Witness ==
    /\ "end_date" \in DOMAIN bucket
    /\ bucket.frequency = "MONTHLY"
    /\ bucket.start_date = datetime(2100, 2, 1, 0, 0)
    /\ bucket.end_date = datetime(2100, 2, 28, SecondsPerDay - 1, MicrosPerSecond - 1)
    /\ add_microsecond(bucket.end_date) = datetime(2100, 3, 1, 0, 0)

(***************************************************************************)
(* Subscriptions and submission: scenarios are created, callbacks are      *)
(* subscribed and unsubscribed, and scenarios are submitted.               *)
(***************************************************************************)
Notifiers == {"cb1", "cb2"}

\* The ids a caller may hold: of persisted scenarios and of others.
ScenarioIds == {new_id(config_id, n) : config_id \in ConfigIds, n \in 1..MaxScenarios}

\* A callback is subscribed to a scenario that does not have it yet.
SubscribeNotifier ==
    /\ \E callback \in Notifiers, targets \in SubscribeTargets :
          /\ \A t \in targets :
                \A j \in DOMAIN scenarios[t].subscribers :
                    scenarios[t].subscribers[j] # callback
          /\ _subscribe(callback, targets)
    /\ UNCHANGED <<compare_calls, callers, bucket>>

UnsubscribeNotifier ==
    /\ \E callback \in Notifiers, targets \in SubscribeTargets :
          _unsubscribe(callback, targets)
    /\ UNCHANGED <<compare_calls, callers, bucket>>

Submit ==
    /\ \E scenario_id \in ScenarioIds, force \in BOOLEAN : _submit(scenario_id, force)
    /\ UNCHANGED <<compare_calls, callers, bucket>>

NextSubmit ==
    \/ Create
    \/ SubscribeNotifier
    \/ UnsubscribeNotifier
    \/ Submit

SpecSubmit == Init /\ [][NextSubmit]_vars

\* C13: submitting an id under which no scenario is persisted fails with
\* NonExistingScenario and calls the Pipeline Manager for no pipeline;
\* otherwise the Pipeline Manager is called once for each pipeline of the
\* persisted scenario and for nothing else, each call with the force flag
\* given and with one callback per subscriber of the scenario, in the order of
\* the subscribers, each bound to that scenario.
C13_SubmitEveryPipelineOnce ==
    [][\A scenario_id \in ScenarioIds, force \in BOOLEAN :
          (next_id' = next_id /\ _submit(scenario_id, force)) =>
             IF scenario_id \notin Persisted
             THEN result' = "NonExistingScenario" /\ pm_calls' = <<>>
             ELSE LET scenario == scenarios[scenario_id]
                      submitted == {q \in 1..Len(pm_calls') : pm_calls'[q].fct = "_submit"}
                  IN /\ result' = "ok"
                     /\ submitted = DOMAIN pm_calls'
                     /\ \A i \in DOMAIN scenario.pipelines :
                           Cardinality({q \in submitted :
                               pm_calls'[q].pipeline_id = scenario.pipelines[i].id}) = 1
                     /\ \A q \in submitted :
                           /\ \E i \in DOMAIN scenario.pipelines :
                                 pm_calls'[q].pipeline_id = scenario.pipelines[i].id
                           /\ pm_calls'[q].force = force
                           /\ Len(pm_calls'[q].callbacks) = Len(scenario.subscribers)
                           /\ \A j \in DOMAIN scenario.subscribers :
                                 pm_calls'[q].callbacks[j]
                                    = <<scenario.subscribers[j], scenario_id>>
    ]_vars

\* A scenario with three pipelines and two different subscribers has just been
\* submitted with force.
C13_Witness ==
    /\ result = "ok"
    /\ Len(pm_calls) = 3
    /\ \A q \in DOMAIN pm_calls :
          /\ pm_calls[q].fct = "_submit"
          /\ pm_calls[q].force
          /\ Len(pm_calls[q].callbacks) = 2
          /\ pm_calls[q].callbacks[1][1] # pm_calls[q].callbacks[2][1]
          /\ pm_calls[q].callbacks[1][2] \in Persisted

(***************************************************************************)
(* Comparison: scenarios are created and compared.                         *)
(***************************************************************************)
\* The data_node_config_id argument of _compare: None, a data node that has
\* comparators in some scenario config, or one that has none.
DataNodeConfigIds == {None, "d1", "d2", "d3"}

\* What Config.scenarios may hold when _compare runs: every scenario config,
\* or all but one.
Registered == {ConfigIds, ConfigIds \ {"a"}}

\* The sequences of at most n different elements of S.
RECURSIVE SeqsUpTo(_, _)
SeqsUpTo(S, n) ==
    IF n = 0 THEN {<<>>}
    ELSE LET shorter == SeqsUpTo(S, n - 1)
         IN shorter \cup {Append(p[1], p[2]) :
                            p \in {r \in shorter \X S :
                                      \A i \in DOMAIN r[1] : r[1][i] # r[2]}}

\* The scenarios given to _compare: up to MaxCompared different persisted
\* scenarios.
Compared == SeqsUpTo(Persisted, MaxCompared)

Compare ==
    /\ \E scenario_ids \in Compared, data_node_config_id \in DataNodeConfigIds,
          registered \in Registered :
          _compare(scenario_ids, data_node_config_id, registered)
    /\ UNCHANGED <<callers, bucket>>

NextCompare ==
    \/ Create
    \/ Compare

SpecCompare == Init /\ [][NextCompare]_vars

\* C14: comparing fewer than two scenarios fails with
\* InsufficientScenarioToCompare; comparing two or more scenarios whose
\* config ids are not all equal fails with DifferentScenarioConfigs; in both
\* cases the scenario config has not been looked up, no data node has been
\* read and no comparator has been called; and a comparison never changes
\* what is persisted.
C14_CompareGuardsFirst ==
    [][\A scenario_ids \in Compared, data_node_config_id \in DataNodeConfigIds,
          registered \in Registered :
          _compare(scenario_ids, data_node_config_id, registered) =>
             /\ Len(scenario_ids) < 2 =>
                   result' = "InsufficientScenarioToCompare" /\ compare_calls' = <<>>
             /\ (/\ Len(scenario_ids) >= 2
                 /\ \E i, j \in DOMAIN scenario_ids :
                       scenarios[scenario_ids[i]].config_id
                          # scenarios[scenario_ids[j]].config_id) =>
                   result' = "DifferentScenarioConfigs" /\ compare_calls' = <<>>
             /\ UNCHANGED <<scenarios, cycles, pipelines, next_id>>
    ]_vars

\* Two persisted scenarios of different configs have just been compared.
C14_Witness ==
    /\ result = "DifferentScenarioConfigs"
    /\ compare_calls = <<>>
    /\ \E s1, s2 \in Persisted : scenarios[s1].config_id # scenarios[s2].config_id

\* C15: subscribing a callback with no scenario given appends it to the
\* subscribers of every persisted scenario, and with a scenario given to the
\* subscribers of that scenario only; unsubscribing takes the callback out of
\* the subscribers of every persisted scenario, or of the scenario given only;
\* the records persisted afterwards are the former ones with these
\* subscribers, and every other persisted scenario is as before.
C15_SubscribeAllOrOne ==
    [][\A callback \in Notifiers, targets \in SubscribeTargets :
          /\ (result' = "ok" /\ pm_calls' = <<>> /\ next_id' = next_id
                /\ _subscribe(callback, targets)) =>
                /\ DOMAIN scenarios' = Persisted
                /\ \A s \in Persisted :
                      scenarios'[s] =
                         IF s \in targets
                         THEN [scenarios[s] EXCEPT !.subscribers = Append(@, callback)]
                         ELSE scenarios[s]
          /\ (result' = "ok" /\ pm_calls' = <<>> /\ next_id' = next_id
                /\ _unsubscribe(callback, targets)) =>
                /\ DOMAIN scenarios' = Persisted
                /\ \A s \in Persisted :
                      scenarios'[s] =
                         IF s \in targets
                         THEN [scenarios[s] EXCEPT !.subscribers =
                                  SelectSeq(@, LAMBDA c : c # callback)]
                         ELSE scenarios[s]
    ]_vars

\* One callback was subscribed to all scenarios and another to one of them.
C15_Witness ==
    \E s1, s2 \in Persisted :
        /\ s1 # s2
        /\ scenarios[s1].subscribers = <<"cb2", "cb1">>
        /\ scenarios[s2].subscribers = <<"cb2">>

(***************************************************************************)
(* Two callers without serialization: _create and _set_master run as the   *)
(* separate reads and writes of the repository that their code makes, and  *)
(* the steps of the two callers interleave.  A caller keeps the Scenario   *)
(* objects it has read or built until its operation returns.               *)
(***************************************************************************)
\* _create up to the computation of is_master_scenario: the identity, the
\* pipelines and the cycle are obtained and the scenarios of the cycle read.
create_read(caller, config_id, date) ==
    /\ callers[caller] = Idle
    /\ next_id < MaxScenarios
    /\ LET config == Config[config_id]
           scenario_id == new_id(config_id, next_id + 1)
           created == [i \in 1..Len(config.pipeline_configs) |->
                          pipeline_get_or_create(config.pipeline_configs[i], scenario_id)]
           obtained == IF config.frequency # None
                       THEN {[cycle |-> g.cycle.id, repo |-> g.repo] :
                                g \in _get_or_create(cycles, config.frequency, date)}
                       ELSE {[cycle |-> NoCycle, repo |-> cycles]}
       IN \E g \in obtained :
            /\ callers' = [callers EXCEPT ![caller] =
                  [op |-> "create",
                   scenario |-> [id |-> scenario_id,
                                 config_id |-> config_id,
                                 pipelines |-> created,
                                 properties |-> config.properties,
                                 is_master |-> is_master_scenario(scenarios, g.cycle),
                                 cycle |-> g.cycle,
                                 tags |-> {},
                                 subscribers |-> <<>>]]]
            /\ cycles' = g.repo
            /\ pipelines' = pipelines \cup {created[i] : i \in DOMAIN created}
            /\ next_id' = next_id + 1
            /\ UNCHANGED <<scenarios, result, pm_calls>>

\* _create: cls._set(scenario) and return.
create_persist(caller) ==
    /\ callers[caller].op = "create"
    /\ scenarios' = _set(scenarios, callers[caller].scenario)
    /\ callers' = [callers EXCEPT ![caller] = Idle]
    /\ result' = "ok"
    /\ pm_calls' = <<>>
    /\ UNCHANGED <<cycles, pipelines, next_id>>

\* _set_master up to the return of _get_master: the caller holds the scenario
\* and the master found, if any.
set_master_read(caller, scenario_id) ==
    /\ callers[caller] = Idle
    /\ LET scenario == scenarios[scenario_id]
       IN IF scenario.cycle # NoCycle
          THEN \E master_scenario \in _get_master(scenarios, scenario.cycle) :
                 /\ callers' = [callers EXCEPT ![caller] =
                       IF master_scenario # NoId
                       THEN [op |-> "set_master", pc |-> "unflag", scenario |-> scenario,
                             master_scenario |-> scenarios[master_scenario]]
                       ELSE [op |-> "set_master", pc |-> "flag", scenario |-> scenario]]
                 /\ UNCHANGED <<scenarios, cycles, pipelines, next_id, result, pm_calls>>
          ELSE raise("DoesNotBelongToACycle") /\ UNCHANGED callers

\* Variant: the master found and the scenario are written in one step.
set_master_unflag_and_flag(caller) ==
    /\ callers[caller].op = "set_master"
    /\ callers[caller].pc = "unflag"
    /\ scenarios' = _set(_set(scenarios,
                              [callers[caller].master_scenario EXCEPT !.is_master = FALSE]),
                         [callers[caller].scenario EXCEPT !.is_master = TRUE])
    /\ callers' = [callers EXCEPT ![caller] = [@ EXCEPT !.pc = "flag"]]
    /\ UNCHANGED <<cycles, pipelines, next_id, result, pm_calls>>

\* _set_master: master_scenario._master_scenario = False; cls._set(master_scenario)
set_master_unflag(caller) ==
    /\ callers[caller].op = "set_master"
    /\ callers[caller].pc = "unflag"
    /\ scenarios' = _set(scenarios,
                         [callers[caller].master_scenario EXCEPT !.is_master = FALSE])
    /\ callers' = [callers EXCEPT ![caller] = [@ EXCEPT !.pc = "flag"]]
    /\ UNCHANGED <<cycles, pipelines, next_id, result, pm_calls>>

\* _set_master: scenario._master_scenario = True; cls._set(scenario)
set_master_flag(caller) ==
    /\ callers[caller].op = "set_master"
    /\ callers[caller].pc = "flag"
    /\ scenarios' = _set(scenarios, [callers[caller].scenario EXCEPT !.is_master = TRUE])
    /\ callers' = [callers EXCEPT ![caller] = Idle]
    /\ result' = "ok"
    /\ pm_calls' = <<>>
    /\ UNCHANGED <<cycles, pipelines, next_id>>

CreateRead ==
    /\ \E caller \in Callers, config_id \in ConfigIds, date \in Instants :
          create_read(caller, config_id, date)
    /\ UNCHANGED <<compare_calls, bucket>>
CreatePersist ==
    /\ \E caller \in Callers : create_persist(caller)
    /\ UNCHANGED <<compare_calls, bucket>>
SetMasterRead ==
    /\ \E caller \in Callers, s \in Persisted : set_master_read(caller, s)
    /\ UNCHANGED <<compare_calls, bucket>>
SetMasterUnflag ==
    /\ \E caller \in Callers : set_master_unflag(caller)
    /\ UNCHANGED <<compare_calls, bucket>>
SetMasterFlag ==
    /\ \E caller \in Callers : set_master_flag(caller)
    /\ UNCHANGED <<compare_calls, bucket>>

NextRace ==
    \/ CreateRead
    \/ CreatePersist
    \/ SetMasterRead
    \/ SetMasterUnflag
    \/ SetMasterFlag

SpecRace == Init /\ [][NextRace]_vars

\* C16: when the steps of two callers interleave, a SetMaster has a persisted
\* state between its two writes in which the cycle has no master: the write
\* of the unflagged former master, when that was the only master of the cycle
\* and is not the scenario being promoted, leaves the cycle without a master;
\* and a cycle with scenarios is without a master only while some caller is
\* between these two writes for a scenario of that cycle.  (That two masters
\* of one cycle are reachable is C16_Witness.)
C16_ElectionIsNotAtomic ==
    [][/\ \A caller \in Callers :
             (/\ set_master_unflag(caller)
              /\ callers[caller].master_scenario.id # callers[caller].scenario.id
              /\ MastersOf(scenarios, callers[caller].scenario.cycle)
                    = {callers[caller].master_scenario.id})
             => /\ ScenariosOf(scenarios', callers[caller].scenario.cycle) # {}
                /\ MastersOf(scenarios', callers[caller].scenario.cycle) = {}
       /\ \A c \in {k.id : k \in cycles'} :
             (ScenariosOf(scenarios', c) # {} /\ MastersOf(scenarios', c) = {})
             => \E caller \in Callers :
                   /\ callers'[caller].op = "set_master"
                   /\ callers'[caller].pc = "flag"
                   /\ callers'[caller].scenario.cycle = c
    ]_vars

\* Both callers have returned and a cycle has two masters.
C16_Witness ==
    /\ \A caller \in Callers : callers[caller] = Idle
    /\ \E c \in CycleIds : Cardinality(MastersOf(scenarios, c)) = 2

(***************************************************************************)
(* Every operation of the scenario manager, one at a time.                 *)
(***************************************************************************)
NextAll ==
    \/ Create
    \/ SetMaster
    \/ Tag
    \/ Untag
    \/ Delete
    \/ HardDelete
    \/ Subscribe
    \/ Unsubscribe
    \/ Submit
    \/ Compare

SpecAll == Init /\ [][NextAll]_vars

\* The persisted scenarios whose is_master flag a step changes.
Unflagged == {s \in Persisted \cap DOMAIN scenarios' :
                 scenarios[s].is_master /\ ~scenarios'[s].is_master}
Flagged == {s \in Persisted \cap DOMAIN scenarios' :
               ~scenarios[s].is_master /\ scenarios'[s].is_master}

\* C17: a step that changes the is_master flag of a persisted scenario is a
\* SetMaster step: a flag goes from TRUE to FALSE only when the step is
\* SetMaster of another scenario of the same cycle, which is master after
\* it, and from FALSE to TRUE only when the step is SetMaster of that
\* scenario; and such a step is not a step of Tag, Untag, Subscribe,
\* Unsubscribe, Submit, Compare, Delete or HardDelete, nor a creation.
C17_OnlySetMasterMovesTheFlag ==
    [][(Unflagged # {} \/ Flagged # {}) =>
          /\ \A s \in Unflagged :
                \E b \in Persisted \ {s} :
                    /\ scenarios[b].cycle = scenarios[s].cycle
                    /\ _set_master(b)
                    /\ scenarios'[b].is_master
          /\ \A s \in Flagged : _set_master(s)
          /\ ~(Tag \/ Untag \/ Subscribe \/ Unsubscribe \/ Submit \/ Compare
                 \/ Delete \/ HardDelete \/ Create)
    ]_vars

\* The flag has moved from the first scenario of a cycle to the second, which
\* holds a tag and has a subscriber.
C17_Witness ==
    \E s1, s2 \in Persisted :
        /\ s1[3] < s2[3]
        /\ scenarios[s1].cycle # NoCycle
        /\ scenarios[s1].cycle = scenarios[s2].cycle
        /\ ~scenarios[s1].is_master
        /\ scenarios[s2].is_master
        /\ scenarios[s2].tags # {}
        /\ scenarios[s2].subscribers # <<>>

\* C19: Tag of a scenario B with a tag t changes the tags of another persisted
\* scenario only by taking t from a scenario of the cycle of B; the tags of
\* the scenarios of other cycles and of the scenarios without a cycle stay as
\* they are, and when B has no cycle the tags of every other scenario stay as
\* they are.
C19_TagTransferStaysInCycle ==
    [][\A b \in Persisted, t \in Tags :
          (next_id' = next_id /\ _tag(b, t)) =>
             /\ DOMAIN scenarios' = Persisted
             /\ \A s \in Persisted \ {b} :
                   \/ scenarios'[s].tags = scenarios[s].tags
                   \/ /\ scenarios[b].cycle # NoCycle
                      /\ scenarios[s].cycle = scenarios[b].cycle
                      /\ scenarios'[s].tags = scenarios[s].tags \ {t}
    ]_vars

\* Two scenarios without a cycle hold the same tag.
C19_Witness ==
    \E s1, s2 \in Persisted :
        /\ s1 # s2
        /\ scenarios[s1].cycle = NoCycle
        /\ scenarios[s2].cycle = NoCycle
        /\ scenarios[s1].tags \cap scenarios[s2].tags # {}

\* C20: every persisted scenario that is master belongs to a cycle; a
\* scenario whose config has no frequency has no cycle, and whatever the
\* operations that ran, a scenario without a cycle is not master.
C20_MasterBelongsToACycle ==
    \A s \in Persisted :
        /\ scenarios[s].is_master => scenarios[s].cycle \in CycleIds
        /\ Config[scenarios[s].config_id].frequency = None =>
              scenarios[s].cycle = NoCycle /\ ~scenarios[s].is_master
        /\ NoCycle \notin CycleIds

\* A scenario without a cycle, on which SetMaster has just failed, next to a
\* master of a cycle.
C20_Witness ==
    /\ result = "DoesNotBelongToACycle"
    /\ \E s1, s2 \in Persisted :
          /\ scenarios[s1].cycle = NoCycle
          /\ ~scenarios[s1].is_master
          /\ scenarios[s2].is_master
=============================================================================
